---- MODULE Spec2Model ----
(***************************************************************************)
(* A model of the fits-rs decoder: the keyword catalogue                   *)
(* (src/src/types/mod.rs, Keyword::from_str), the value grammar and the    *)
(* header parser (src/src/parser/mod.rs, nom 3 combinators over &[u8]).    *)
(*                                                                         *)
(* Bytes are one-character strings; a byte string or a &str is a sequence  *)
(* of them.  The byte written "xFF" stands for a byte that is not valid    *)
(* UTF-8.                                                                  *)
(***************************************************************************)
EXTENDS Integers, Sequences, FiniteSets, TLC

VARIABLES
  input,    \* the text or byte buffer an operation is applied to
  op,       \* the operation that has been applied ("none" before any);
            \* in the header parser, the step primary_header is at
  result,   \* what the operation returned
  pos,      \* header parser: number of bytes of input consumed so far
  records   \* header parser: the keyword records collected so far

vars == <<input, op, result, pos, records>>

\* The one element of a set of one element; x \in {e} names the value of e.
The(S) == CHOOSE x \in S : TRUE

NoResult == [kind |-> "none"]

(***************************************************************************)
(* Text helpers of the Rust standard library.                              *)
(***************************************************************************)

\* char::is_whitespace, on the bytes the model uses.
is_whitespace(c) == c \in {" ", "\t", "\n", "\r", "\f"}

\* str::trim_right: strips trailing whitespace only.
RECURSIVE trim_right(_)
trim_right(s) ==
  IF s = <<>> THEN s
  ELSE IF is_whitespace(s[Len(s)]) THEN trim_right(SubSeq(s, 1, Len(s) - 1))
  ELSE s

\* str::starts_with.
starts_with(s, prefix) ==
  Len(s) >= Len(prefix) /\ SubSeq(s, 1, Len(prefix)) = prefix

\* str::split_at: the two halves of s around byte offset mid.
split_at(s, mid) == <<SubSeq(s, 1, mid), SubSeq(s, mid + 1, Len(s))>>

\* str::from_utf8: fails on a byte sequence that is not UTF-8.
from_utf8(bytes) ==
  IF \E i \in 1..Len(bytes) : bytes[i] = "xFF"
  THEN [ok |-> FALSE, err |-> "Utf8Error"]
  ELSE [ok |-> TRUE, val |-> bytes]

DigitChars == <<"0", "1", "2", "3", "4", "5", "6", "7", "8", "9">>

\* nom::is_digit / char::to_digit(10).
is_digit(c) == \E i \in 1..10 : DigitChars[i] = c

to_digit(c) == (CHOOSE i \in 1..10 : DigitChars[i] = c) - 1

\* The accumulation loop of the integer FromStr implementations: every
\* character must be a digit and the running value must stay <= max
\* (checked_mul / checked_add).  -1 stands for the Err outcome.
RECURSIVE checked_digits(_, _, _)
checked_digits(ds, acc, max) ==
  IF ds = <<>> THEN acc
  ELSE IF ~is_digit(Head(ds)) THEN -1
  ELSE LET d == to_digit(Head(ds)) IN
       IF acc > (max - d) \div 10 THEN -1
       ELSE checked_digits(Tail(ds), acc * 10 + d, max)

U16Max == 65535

\* u16::from_str: an optional '+', then one or more digits, value <= 65535.
u16_from_str(s) ==
  LET ds == IF s # <<>> /\ Head(s) = "+" THEN Tail(s) ELSE s
      v  == checked_digits(ds, 0, U16Max)
  IN IF ds = <<>> \/ v < 0
     THEN [ok |-> FALSE, err |-> "ParseIntError"]
     ELSE [ok |-> TRUE, val |-> v]

(***************************************************************************)
(* The keyword catalogue: enum Keyword and Keyword::from_str.              *)
(***************************************************************************)

\* enum Keyword: every variant, the spelling of its identifier, and whether
\* it carries a u16 index.
KeywordEnum ==
  << [variant |-> "AV", ident |-> <<"A", "V">>, indexed |-> FALSE],
     [variant |-> "BITPIX", ident |-> <<"B", "I", "T", "P", "I", "X">>, indexed |-> FALSE],
     [variant |-> "CAMPAIGN", ident |-> <<"C", "A", "M", "P", "A", "I", "G", "N">>, indexed |-> FALSE],
     [variant |-> "CHANNEL", ident |-> <<"C", "H", "A", "N", "N", "E", "L">>, indexed |-> FALSE],
     [variant |-> "CHECKSUM", ident |-> <<"C", "H", "E", "C", "K", "S", "U", "M">>, indexed |-> FALSE],
     [variant |-> "CREATOR", ident |-> <<"C", "R", "E", "A", "T", "O", "R">>, indexed |-> FALSE],
     [variant |-> "DATASUM", ident |-> <<"D", "A", "T", "A", "S", "U", "M">>, indexed |-> FALSE],
     [variant |-> "DATA_REL", ident |-> <<"D", "A", "T", "A", "_", "R", "E", "L">>, indexed |-> FALSE],
     [variant |-> "DATE", ident |-> <<"D", "A", "T", "E">>, indexed |-> FALSE],
     [variant |-> "DEC_OBJ", ident |-> <<"D", "E", "C", "_", "O", "B", "J">>, indexed |-> FALSE],
     [variant |-> "EBMINUSV", ident |-> <<"E", "B", "M", "I", "N", "U", "S", "V">>, indexed |-> FALSE],
     [variant |-> "END", ident |-> <<"E", "N", "D">>, indexed |-> FALSE],
     [variant |-> "EQUINOX", ident |-> <<"E", "Q", "U", "I", "N", "O", "X">>, indexed |-> FALSE],
     [variant |-> "EXTEND", ident |-> <<"E", "X", "T", "E", "N", "D">>, indexed |-> FALSE],
     [variant |-> "EXTNAME", ident |-> <<"E", "X", "T", "N", "A", "M", "E">>, indexed |-> FALSE],
     [variant |-> "EXTVER", ident |-> <<"E", "X", "T", "V", "E", "R">>, indexed |-> FALSE],
     [variant |-> "FEH", ident |-> <<"F", "E", "H">>, indexed |-> FALSE],
     [variant |-> "FILEVER", ident |-> <<"F", "I", "L", "E", "V", "E", "R">>, indexed |-> FALSE],
     [variant |-> "GCOUNT", ident |-> <<"G", "C", "O", "U", "N", "T">>, indexed |-> FALSE],
     [variant |-> "GKCOLOR", ident |-> <<"G", "K", "C", "O", "L", "O", "R">>, indexed |-> FALSE],
     [variant |-> "GLAT", ident |-> <<"G", "L", "A", "T">>, indexed |-> FALSE],
     [variant |-> "GLON", ident |-> <<"G", "L", "O", "N">>, indexed |-> FALSE],
     [variant |-> "GMAG", ident |-> <<"G", "M", "A", "G">>, indexed |-> FALSE],
     [variant |-> "GRCOLOR", ident |-> <<"G", "R", "C", "O", "L", "O", "R">>, indexed |-> FALSE],
     [variant |-> "HMAG", ident |-> <<"H", "M", "A", "G">>, indexed |-> FALSE],
     [variant |-> "IMAG", ident |-> <<"I", "M", "A", "G">>, indexed |-> FALSE],
     [variant |-> "INSTRUME", ident |-> <<"I", "N", "S", "T", "R", "U", "M", "E">>, indexed |-> FALSE],
     [variant |-> "JKCOLOR", ident |-> <<"J", "K", "C", "O", "L", "O", "R">>, indexed |-> FALSE],
     [variant |-> "JMAG", ident |-> <<"J", "M", "A", "G">>, indexed |-> FALSE],
     [variant |-> "KEPLERID", ident |-> <<"K", "E", "P", "L", "E", "R", "I", "D">>, indexed |-> FALSE],
     [variant |-> "KEPMAG", ident |-> <<"K", "E", "P", "M", "A", "G">>, indexed |-> FALSE],
     [variant |-> "KMAG", ident |-> <<"K", "M", "A", "G">>, indexed |-> FALSE],
     [variant |-> "LOGG", ident |-> <<"L", "O", "G", "G">>, indexed |-> FALSE],
     [variant |-> "MISSION", ident |-> <<"M", "I", "S", "S", "I", "O", "N">>, indexed |-> FALSE],
     [variant |-> "MODULE", ident |-> <<"M", "O", "D", "U", "L", "E">>, indexed |-> FALSE],
     [variant |-> "NAXIS", ident |-> <<"N", "A", "X", "I", "S">>, indexed |-> FALSE],
     [variant |-> "NAXISn", ident |-> <<"N", "A", "X", "I", "S", "n">>, indexed |-> TRUE],
     [variant |-> "NEXTEND", ident |-> <<"N", "E", "X", "T", "E", "N", "D">>, indexed |-> FALSE],
     [variant |-> "OBJECT", ident |-> <<"O", "B", "J", "E", "C", "T">>, indexed |-> FALSE],
     [variant |-> "OBSMODE", ident |-> <<"O", "B", "S", "M", "O", "D", "E">>, indexed |-> FALSE],
     [variant |-> "ORIGIN", ident |-> <<"O", "R", "I", "G", "I", "N">>, indexed |-> FALSE],
     [variant |-> "OUTPUT", ident |-> <<"O", "U", "T", "P", "U", "T">>, indexed |-> FALSE],
     [variant |-> "PARALLAX", ident |-> <<"P", "A", "R", "A", "L", "L", "A", "X">>, indexed |-> FALSE],
     [variant |-> "PCOUNT", ident |-> <<"P", "C", "O", "U", "N", "T">>, indexed |-> FALSE],
     [variant |-> "PMDEC", ident |-> <<"P", "M", "D", "E", "C">>, indexed |-> FALSE],
     [variant |-> "PMRA", ident |-> <<"P", "M", "R", "A">>, indexed |-> FALSE],
     [variant |-> "PMTOTAL", ident |-> <<"P", "M", "T", "O", "T", "A", "L">>, indexed |-> FALSE],
     [variant |-> "PROCVER", ident |-> <<"P", "R", "O", "C", "V", "E", "R">>, indexed |-> FALSE],
     [variant |-> "RADESYS", ident |-> <<"R", "A", "D", "E", "S", "Y", "S">>, indexed |-> FALSE],
     [variant |-> "RADIUS", ident |-> <<"R", "A", "D", "I", "U", "S">>, indexed |-> FALSE],
     [variant |-> "RA_OBJ", ident |-> <<"R", "A", "_", "O", "B", "J">>, indexed |-> FALSE],
     [variant |-> "RMAG", ident |-> <<"R", "M", "A", "G">>, indexed |-> FALSE],
     [variant |-> "SIMPLE", ident |-> <<"S", "I", "M", "P", "L", "E">>, indexed |-> FALSE],
     [variant |-> "TDIMn", ident |-> <<"T", "D", "I", "M", "n">>, indexed |-> TRUE],
     [variant |-> "TDISPn", ident |-> <<"T", "D", "I", "S", "P", "n">>, indexed |-> TRUE],
     [variant |-> "TEFF", ident |-> <<"T", "E", "F", "F">>, indexed |-> FALSE],
     [variant |-> "TELESCOP", ident |-> <<"T", "E", "L", "E", "S", "C", "O", "P">>, indexed |-> FALSE],
     [variant |-> "TFIELDS", ident |-> <<"T", "F", "I", "E", "L", "D", "S">>, indexed |-> FALSE],
     [variant |-> "TFORMn", ident |-> <<"T", "F", "O", "R", "M", "n">>, indexed |-> TRUE],
     [variant |-> "TIMVERSN", ident |-> <<"T", "I", "M", "V", "E", "R", "S", "N">>, indexed |-> FALSE],
     [variant |-> "THEAP", ident |-> <<"T", "H", "E", "A", "P">>, indexed |-> FALSE],
     [variant |-> "TMINDEX", ident |-> <<"T", "M", "I", "N", "D", "E", "X">>, indexed |-> FALSE],
     [variant |-> "TNULLn", ident |-> <<"T", "N", "U", "L", "L", "n">>, indexed |-> TRUE],
     [variant |-> "TSCALn", ident |-> <<"T", "S", "C", "A", "L", "n">>, indexed |-> TRUE],
     [variant |-> "TTABLEID", ident |-> <<"T", "T", "A", "B", "L", "E", "I", "D">>, indexed |-> FALSE],
     [variant |-> "TTYPEn", ident |-> <<"T", "T", "Y", "P", "E", "n">>, indexed |-> TRUE],
     [variant |-> "TUNITn", ident |-> <<"T", "U", "N", "I", "T", "n">>, indexed |-> TRUE],
     [variant |-> "TZEROn", ident |-> <<"T", "Z", "E", "R", "O", "n">>, indexed |-> TRUE],
     [variant |-> "XTENSION", ident |-> <<"X", "T", "E", "N", "S", "I", "O", "N">>, indexed |-> FALSE],
     [variant |-> "ZMAG", ident |-> <<"Z", "M", "A", "G">>, indexed |-> FALSE],
     [variant |-> "Unprocessed", ident |-> <<"U", "n", "p", "r", "o", "c", "e", "s", "s", "e", "d">>, indexed |-> FALSE] >>

\* A fixed variant, and a variant of an indexed family with its index.
Fixed(variant) == [variant |-> variant]

Indexed(variant, n) == [variant |-> variant, n |-> n]

Ok(v) == [ok |-> TRUE, val |-> v]

Err(e) == [ok |-> FALSE, err |-> e]

\* The literal arms of the match in Keyword::from_str, in source order:
\* <<pattern, variant returned>>.
match_arms ==
  << <<<<"A", "V">>, "AV">>,
     <<<<"B", "I", "T", "P", "I", "X">>, "BITPIX">>,
     <<<<"C", "A", "M", "P", "A", "I", "G", "N">>, "CAMPAIGN">>,
     <<<<"C", "H", "A", "N", "N", "E", "L">>, "CHANNEL">>,
     <<<<"C", "H", "E", "C", "K", "S", "U", "M">>, "CHECKSUM">>,
     <<<<"C", "R", "E", "A", "T", "O", "R">>, "CREATOR">>,
     <<<<"D", "A", "T", "A", "S", "U", "M">>, "DATASUM">>,
     <<<<"D", "A", "T", "A", "_", "R", "E", "L">>, "DATA_REL">>,
     <<<<"D", "A", "T", "E">>, "DATE">>,
     <<<<"D", "E", "C", "_", "O", "B", "J">>, "DEC_OBJ">>,
     <<<<"E", "B", "M", "I", "N", "U", "S", "V">>, "EBMINUSV">>,
     <<<<"E", "N", "D">>, "END">>,
     <<<<"E", "Q", "U", "I", "N", "O", "X">>, "EQUINOX">>,
     <<<<"E", "X", "T", "E", "N", "D">>, "EXTEND">>,
     <<<<"E", "X", "T", "N", "A", "M", "E">>, "EXTNAME">>,
     <<<<"E", "X", "T", "V", "E", "R">>, "EXTVER">>,
     <<<<"F", "E", "H">>, "FEH">>,
     <<<<"F", "I", "L", "E", "V", "E", "R">>, "FILEVER">>,
     <<<<"G", "C", "O", "U", "N", "T">>, "GCOUNT">>,
     <<<<"G", "K", "C", "O", "L", "O", "R">>, "GKCOLOR">>,
     <<<<"G", "L", "A", "T">>, "GLAT">>,
     <<<<"G", "L", "O", "N">>, "GLON">>,
     <<<<"G", "M", "A", "G">>, "GMAG">>,
     <<<<"G", "R", "C", "O", "L", "O", "R">>, "GRCOLOR">>,
     <<<<"H", "M", "A", "G">>, "HMAG">>,
     <<<<"I", "M", "A", "G">>, "IMAG">>,
     <<<<"I", "N", "S", "T", "R", "U", "M", "E">>, "INSTRUME">>,
     <<<<"J", "K", "C", "O", "L", "O", "R">>, "JKCOLOR">>,
     <<<<"J", "M", "A", "G">>, "JMAG">>,
     <<<<"K", "E", "P", "L", "E", "R", "I", "D">>, "KEPLERID">>,
     <<<<"K", "E", "P", "M", "A", "G">>, "KEPMAG">>,
     <<<<"K", "M", "A", "G">>, "KMAG">>,
     <<<<"L", "O", "G", "G">>, "LOGG">>,
     <<<<"M", "I", "S", "S", "I", "O", "N">>, "MISSION">>,
     <<<<"M", "O", "D", "U", "L", "E">>, "MODULE">>,
     <<<<"N", "A", "X", "I", "S">>, "NAXIS">>,
     <<<<"N", "E", "X", "T", "E", "N", "D">>, "NEXTEND">>,
     <<<<"O", "B", "J", "E", "C", "T">>, "OBJECT">>,
     <<<<"O", "B", "S", "M", "O", "D", "E">>, "OBSMODE">>,
     <<<<"O", "R", "I", "G", "I", "N">>, "ORIGIN">>,
     <<<<"O", "U", "T", "P", "U", "T">>, "OUTPUT">>,
     <<<<"P", "A", "R", "A", "L", "L", "A", "X">>, "PARALLAX">>,
     <<<<"P", "C", "O", "U", "N", "T">>, "PCOUNT">>,
     <<<<"P", "M", "D", "E", "C">>, "PMDEC">>,
     <<<<"P", "M", "R", "A">>, "PMRA">>,
     <<<<"P", "M", "T", "O", "T", "A", "L">>, "PMTOTAL">>,
     <<<<"P", "R", "O", "C", "V", "E", "R">>, "PROCVER">>,
     <<<<"R", "A", "D", "E", "S", "Y", "S">>, "RADESYS">>,
     <<<<"R", "A", "D", "I", "U", "S">>, "RADIUS">>,
     <<<<"R", "A", "_", "O", "B", "J">>, "RA_OBJ">>,
     <<<<"R", "M", "A", "G">>, "RMAG">>,
     <<<<"S", "I", "M", "P", "L", "E">>, "SIMPLE">>,
     <<<<"T", "E", "F", "F">>, "TEFF">>,
     <<<<"T", "E", "L", "E", "S", "C", "O", "P">>, "TELESCOP">>,
     <<<<"T", "F", "I", "E", "L", "D", "S">>, "TFIELDS">>,
     <<<<"T", "H", "E", "A", "P">>, "THEAP">>,
     <<<<"T", "I", "M", "V", "E", "R", "S", "N">>, "TIMVERSN">>,
     <<<<"T", "M", "I", "N", "D", "E", "X">>, "TMINDEX">>,
     <<<<"T", "T", "A", "B", "L", "E", "I", "D">>, "TTABLEID">>,
     <<<<"X", "T", "E", "N", "S", "I", "O", "N">>, "XTENSION">>,
     <<<<"Z", "M", "A", "G">>, "ZMAG">> >>
\* The prefix tests of the catch-all arm, in source order: the eight inline
\* else-if branches, then the PrefixedKeyword special case for TZERO.
prefix_arms ==
  << <<<<"T", "D", "I", "M">>, "TDIMn">>,
     <<<<"T", "D", "I", "S", "P">>, "TDISPn">>,
     <<<<"T", "F", "O", "R", "M">>, "TFORMn">>,
     <<<<"N", "A", "X", "I", "S">>, "NAXISn">>,
     <<<<"T", "N", "U", "L", "L">>, "TNULLn">>,
     <<<<"T", "S", "C", "A", "L">>, "TSCALn">>,
     <<<<"T", "T", "Y", "P", "E">>, "TTYPEn">>,
     <<<<"T", "U", "N", "I", "T">>, "TUNITn">>,
     <<<<"T", "Z", "E", "R", "O">>, "TZEROn">> >>

\* transform with the text split one byte before the end of the prefix.
transform_split_early(prefix, constructor, text) ==
  LET representation == split_at(text, Len(prefix) - 1)[2]
      n == u16_from_str(representation)
  IN IF n.ok THEN Ok(Indexed(constructor, n.val)) ELSE Err("NotANumber")

\* PrefixedKeyword::transform, and the identical inline branches: the text
\* after the prefix parsed as u16.
transform(prefix, constructor, text) ==
  LET representation == split_at(text, Len(prefix))[2]
      n == u16_from_str(representation)
  IN IF n.ok THEN Ok(Indexed(constructor, n.val)) ELSE Err("NotANumber")

\* from_str without the trim_right of its argument.
from_str_untrimmed(s) ==
  LET text == s
      lit  == {i \in 1..Len(match_arms) : match_arms[i][1] = text}
      pre  == {i \in 1..Len(prefix_arms) : starts_with(text, prefix_arms[i][1])}
  IN IF lit # {}
     THEN Ok(Fixed(match_arms[CHOOSE i \in lit : \A j \in lit : i <= j][2]))
     ELSE IF pre # {}
     THEN LET k == CHOOSE i \in pre : \A j \in pre : i <= j
          IN transform(prefix_arms[k][1], prefix_arms[k][2], text)
     ELSE Ok(Fixed("Unprocessed"))

\* from_str with the catch-all returning the UnknownKeyword error.
from_str_unknown_is_error(s) ==
  LET text == trim_right(s)
      lit  == {i \in 1..Len(match_arms) : match_arms[i][1] = text}
      pre  == {i \in 1..Len(prefix_arms) : starts_with(text, prefix_arms[i][1])}
  IN IF lit # {}
     THEN Ok(Fixed(match_arms[CHOOSE i \in lit : \A j \in lit : i <= j][2]))
     ELSE IF pre # {}
     THEN LET k == CHOOSE i \in pre : \A j \in pre : i <= j
          IN transform(prefix_arms[k][1], prefix_arms[k][2], text)
     ELSE Err("UnknownKeyword")

\* Keyword::from_str.
from_str(s) ==
  LET text == trim_right(s)
      lit  == {i \in 1..Len(match_arms) : match_arms[i][1] = text}
      pre  == {i \in 1..Len(prefix_arms) : starts_with(text, prefix_arms[i][1])}
  IN IF lit # {}
     THEN Ok(Fixed(match_arms[CHOOSE i \in lit : \A j \in lit : i <= j][2]))
     ELSE IF pre # {}
     THEN LET k == CHOOSE i \in pre : \A j \in pre : i <= j
          IN transform(prefix_arms[k][1], prefix_arms[k][2], text)
     ELSE Ok(Fixed("Unprocessed"))

(***************************************************************************)
(* Bytes and the nom 3 combinators used by the parser, on &[u8].           *)
(***************************************************************************)

\* The bytes 32..126 in order: PrintableAscii[k] is byte 31 + k.  The double
\* quote, the backslash and the backquote are written "x22", "x5C", "x60".
PrintableAscii ==
  << " ", "!", "x22", "#", "$", "%", "&", "'", "(", ")", "*", "+",
     ",", "-", ".", "/", "0", "1", "2", "3", "4", "5", "6", "7",
     "8", "9", ":", ";", "<", "=", ">", "?", "@", "A", "B", "C",
     "D", "E", "F", "G", "H", "I", "J", "K", "L", "M", "N", "O",
     "P", "Q", "R", "S", "T", "U", "V", "W", "X", "Y", "Z", "[",
     "x5C", "]", "^", "_", "x60", "a", "b", "c", "d", "e", "f", "g",
     "h", "i", "j", "k", "l", "m", "n", "o", "p", "q", "r", "s",
     "t", "u", "v", "w", "x", "y", "z", "{", "|", "}", "~" >>

\* The bytes of the model: the printable ones, HT, LF, FF, CR and 0xFF.
Bytes ==
  {PrintableAscii[k] : k \in 1..Len(PrintableAscii)}
    \cup {"\t", "\n", "\f", "\r", "xFF"}

\* The numeric value of each byte.
ByteValue ==
  [c \in Bytes |->
     IF \E k \in 1..Len(PrintableAscii) : PrintableAscii[k] = c
     THEN 31 + (CHOOSE k \in 1..Len(PrintableAscii) : PrintableAscii[k] = c)
     ELSE CASE c = "\t" -> 9
            [] c = "\n" -> 10
            [] c = "\f" -> 12
            [] c = "\r" -> 13
            [] OTHER -> 255]

byte(c) == ByteValue[c]

\* IResult: Done(remaining input, output), Error, Incomplete.  The Needed
\* size of Incomplete and the ErrorKind of Error are not kept.
Done(i, o) == [kind |-> "Done", rest |-> i, out |-> o]

Error == [kind |-> "Error"]

Incomplete == [kind |-> "Incomplete"]

Some(x) == [some |-> TRUE, val |-> x]

None == [some |-> FALSE]

\* take!(n) with an Error for an input shorter than n.
take_short_is_error(i, n) ==
  IF Len(i) < n THEN Error
  ELSE Done(SubSeq(i, n + 1, Len(i)), SubSeq(i, 1, n))

\* take!(n).
take(i, n) ==
  IF Len(i) < n THEN Incomplete
  ELSE Done(SubSeq(i, n + 1, Len(i)), SubSeq(i, 1, n))

\* tag!(t): Error on a mismatch within the bytes present, Incomplete when
\* the input ends inside a matching tag.
tag(i, t) ==
  LET m == IF Len(i) < Len(t) THEN Len(i) ELSE Len(t) IN
  IF SubSeq(i, 1, m) # SubSeq(t, 1, m) THEN Error
  ELSE IF m < Len(t) THEN Incomplete
  ELSE Done(SubSeq(i, Len(t) + 1, Len(i)), t)

\* Length of the longest run of bytes of the set S in i from index k on.
run_len(i, k, S) ==
  The({ The({ IF ends = {} THEN 0
              ELSE (CHOOSE j \in ends : \A l \in ends : j <= l) - n :
              ends \in {{j \in n..(Len(s) + 1) : j = Len(s) + 1 \/ s[j] \notin P}} }) :
        s \in {i}, n \in {k}, P \in {S} })

\* take_while!(P), with S the bytes that satisfy P: Done also when the
\* input ends.
take_while(i, S) ==
  The({ The({ Done(SubSeq(s, n + 1, Len(s)), SubSeq(s, 1, n)) :
              n \in {run_len(s, 1, S)} }) :
        s \in {i} })

\* is_not!(arr): the longest prefix with no byte of arr; Error when empty
\* because the first byte is in arr.
is_not(i, arr) ==
  LET n == run_len(i, 1, Bytes \ arr) IN
  IF i # <<>> /\ n = 0 THEN Error
  ELSE Done(SubSeq(i, n + 1, Len(i)), SubSeq(i, 1, n))

\* nom::sp, the separator of ws!: eat_separator!(" \t\r\n").
sp(i) == take_while(i, {" ", "\t", "\r", "\n"})

\* wrap_sep!(sp, P) is sep_after(P(sep_before(i))): the separator is eaten
\* before P and, when P is Done, after it.
sep_before(i) == sp(i).rest

sep_after(r) ==
  The({ IF x.kind # "Done" THEN x ELSE Done(sp(x.rest).rest, x.out) : x \in {r} })

\* map_res!(r, F), with v the value of F(r.out), looked at only when r is
\* Done: Error when F returns Err.
map_res(r, v) ==
  IF r.kind # "Done" THEN r
  ELSE IF v.ok THEN Done(r.rest, v.val) ELSE Error

\* map!(r, F), with v the value of F(r.out).
map(r, v) == IF r.kind # "Done" THEN r ELSE Done(r.rest, v)

\* opt!(r): None on Error; Incomplete is passed on.
opt(i, r) ==
  IF r.kind = "Done" THEN Done(r.rest, Some(r.out))
  ELSE IF r.kind = "Error" THEN Done(i, None)
  ELSE r

(***************************************************************************)
(* The value grammar (src/src/parser/mod.rs).                              *)
(***************************************************************************)

CharacterString(s) == [tag |-> "CharacterString", s |-> s]

Logical(b) == [tag |-> "Logical", b |-> b]

Integer(n) == [tag |-> "Integer", n |-> n]

Raw(s) == [tag |-> "Raw", s |-> s]

Undefined == [tag |-> "Undefined"]

is_restricted_ascii(chr) == 32 <= byte(chr) /\ byte(chr) <= 126

is_allowed_in_character_string(chr) ==
  is_restricted_ascii(chr) /\ byte(chr) # 39

\* nom::is_space.
is_space(chr) == chr = " " \/ chr = "\t"

\* The bytes that satisfy each predicate handed to take_while!.
RestrictedAscii == {c \in Bytes : is_restricted_ascii(c)}

AllowedInCharacterString == {c \in Bytes : is_allowed_in_character_string(c)}

DigitBytes == {c \in Bytes : is_digit(c)}

SpaceBytes == {c \in Bytes : is_space(c)}

\* i64::MAX, as text: the bound of i64::from_str.
I64MaxText ==
  <<"9", "2", "2", "3", "3", "7", "2", "0", "3", "6", "8", "5", "4", "7", "7", "5", "8", "0", "7">>

RECURSIVE strip_zeros(_)
strip_zeros(ds) ==
  IF ds # <<>> /\ Head(ds) = "0" THEN strip_zeros(Tail(ds)) ELSE ds

\* a <= b for digit texts of the same length.
RECURSIVE digits_le(_, _)
digits_le(a, b) ==
  IF a = <<>> THEN TRUE
  ELSE IF Head(a) # Head(b) THEN to_digit(Head(a)) < to_digit(Head(b))
  ELSE digits_le(Tail(a), Tail(b))

\* The decimal value of a digit text; the digit texts of the inputs below
\* are short, so the value stays within the integers of the model checker.
RECURSIVE digits_value(_, _)
digits_value(ds, acc) ==
  IF ds = <<>> THEN acc ELSE digits_value(Tail(ds), acc * 10 + to_digit(Head(ds)))

\* i64::from_str: an optional sign, then one or more digits, within i64.
\* (Of i64::MIN only the magnitude up to i64::MAX is accepted here; the
\* parser never passes a sign.)
i64_from_str(s) ==
  LET signed == s # <<>> /\ Head(s) \in {"+", "-"}
      ds     == IF signed THEN Tail(s) ELSE s
      z      == strip_zeros(ds)
  IN IF \/ ds = <<>>
        \/ \E k \in 1..Len(ds) : ~is_digit(ds[k])
        \/ Len(z) > Len(I64MaxText)
        \/ (Len(z) = Len(I64MaxText) /\ ~digits_le(z, I64MaxText))
     THEN [ok |-> FALSE, err |-> "ParseIntError"]
     ELSE [ok |-> TRUE,
           val |-> IF signed /\ Head(s) = "-" THEN 0 - digits_value(z, 0)
                   ELSE digits_value(z, 0)]

\* delimited_sep!(sp, tag!("'"), take_while!(is_allowed_in_character_string),
\* tag!("'")): ws! rewrites delimited! so that each of the three parsers is
\* itself wrapped in the separator.
quoted(i) ==
  The({ IF a.kind # "Done" THEN a
        ELSE The({ IF b.kind # "Done" THEN b
                   ELSE The({ IF c.kind # "Done" THEN c ELSE Done(c.rest, b.out) :
                              c \in {sep_after(tag(sep_before(b.rest), <<"'">>))} }) :
                   b \in {sep_after(take_while(sep_before(a.rest),
                                               AllowedInCharacterString))} }) :
        a \in {sep_after(tag(sep_before(i), <<"'">>))} })

character_string(i) ==
  LET q == sep_after(quoted(sep_before(i)))
      r == map_res(q, from_utf8(q.out))
  IN map(r, CharacterString(r.out))

logical_constant_from_str(constant) ==
  IF constant = <<"T">> THEN Ok(Logical(TRUE))
  ELSE IF constant = <<"F">> THEN Ok(Logical(FALSE))
  ELSE Err("UnknownConstant")

\* alt_sep!(sp, tag!("T") | tag!("F")): each alternative wrapped in the
\* separator; an Incomplete alternative ends the alternation.
t_or_f(i) ==
  LET t == sep_after(tag(sep_before(i), <<"T">>)) IN
  IF t.kind # "Error" THEN t ELSE sep_after(tag(sep_before(i), <<"F">>))

logical_constant(i) ==
  LET a == sep_after(t_or_f(sep_before(i)))
      s == map_res(a, from_utf8(a.out))
  IN map_res(s, logical_constant_from_str(s.out))

integer(i) ==
  LET a == sep_after(take_while(sep_before(i), DigitBytes))
      s == map_res(a, from_utf8(a.out))
      n == map_res(s, i64_from_str(s.out))
  IN map(n, Integer(n.out))

raw(i) ==
  LET a == is_not(i, {"/"})
      s == map_res(a, from_utf8(a.out))
  IN map(s, Raw(s.out))

\* Defined by the parser module but not an alternative of value.
undefined(i) == map(take_while(i, SpaceBytes), Undefined)

\* alt!(character_string | logical_constant | integer | raw): the first
\* alternative that does not return Error decides, Incomplete included.
value(i) ==
  LET c == character_string(i) IN
  IF c.kind # "Error" THEN c
  ELSE LET l == logical_constant(i) IN
       IF l.kind # "Error" THEN l
       ELSE LET n == integer(i) IN
            IF n.kind # "Error" THEN n ELSE raw(i)

comment(i) ==
  The({ IF s.kind # "Done" THEN s
        ELSE The({ map_res(c, from_utf8(c.out)) :
                   c \in {take_while(s.rest, RestrictedAscii)} }) :
        s \in {tag(i, <<"/">>)} })

\* Width of the value-and-comment window of a record.
ValueWidth == 70

\* flat_map!(take!(70), pair!(value, opt!(comment))): the pair is parsed
\* inside the 70 bytes, and what it leaves of them is dropped.
valuecomment(i) ==
  The({ IF w.kind # "Done" THEN w
        ELSE The({ IF v.kind # "Done" THEN v
                   ELSE The({ IF c.kind # "Done" THEN c
                              ELSE Done(w.rest, <<v.out, c.out>>) :
                              c \in {opt(v.rest, comment(v.rest))} }) :
                   v \in {value(w.out)} }) :
        w \in {take(i, ValueWidth)} })

(***************************************************************************)
(* The keyword catalogue as a state machine: a text field is drawn and     *)
(* Keyword::from_str is applied to it.                                     *)
(***************************************************************************)

\* Display for u16 as used by format!("NAXIS{}", n) in the tests.
RECURSIVE to_string(_)
to_string(n) ==
  IF n < 10 THEN <<DigitChars[n + 1]>>
  ELSE to_string(n \div 10) \o <<DigitChars[(n % 10) + 1]>>

Range(f) == {f[i] : i \in DOMAIN f}

Spaces(k) == [i \in 1..k |-> " "]

\* The names of the fixed vocabulary and the prefixes of the indexed
\* families, read off enum Keyword.
Vocabulary ==
  {e.ident : e \in {x \in Range(KeywordEnum) : ~x.indexed /\ x.variant # "Unprocessed"}}

FamilyPrefix(e) == SubSeq(e.ident, 1, Len(e.ident) - 1)

Families == {e \in Range(KeywordEnum) : e.indexed}

\* Width of the keyword field of a record.
KeywordWidth == 8

\* Largest index the indexed-family inputs are drawn with.
MaxIndex == 999

\* Longest free text drawn over FieldAlphabet, and longest suffix drawn
\* after a family prefix.
MaxFreeLen == 3

MaxSuffixLen == 2

FieldAlphabet == {"A", "V", "a", " ", "1", "\t"}

SuffixAlphabet == {"0", "1", "7", " ", "A", "+", "-"}

SeqsUpTo(S, n) == UNION {[1..k -> S] : k \in 0..n}

PadTo(s, w) == IF Len(s) >= w THEN s ELSE s \o Spaces(w - Len(s))

\* Vocabulary names, bare and right-padded with spaces up to the field width.
VocabularyFields ==
  {f \in {name \o Spaces(k) : name \in Vocabulary, k \in 0..KeywordWidth} :
     Len(f) <= KeywordWidth}

\* A family prefix followed by the decimal digits of n.
IndexedFields ==
  {FamilyPrefix(e) \o to_string(n) : e \in Families, n \in 1..MaxIndex}

\* A family prefix followed by a short suffix that need not be a number.
SuffixFields ==
  {FamilyPrefix(e) \o s : e \in Families, s \in SeqsUpTo(SuffixAlphabet, MaxSuffixLen)}

\* Short free texts (lower case, leading spaces, tabs), padded to the field.
FreeFields ==
  {PadTo(s, KeywordWidth) : s \in SeqsUpTo(FieldAlphabet, MaxFreeLen)}

\* Further fields: unknown names, case variants, malformed indices.
ExplicitFields ==
  { <<"s", "i", "m", "p", "l", "e", " ", " ">>,
    <<"S", "i", "m", "p", "l", "e", " ", " ">>,
    <<" ", "S", "I", "M", "P", "L", "E", " ">>,
    <<" ", " ", "E", "N", "D", " ", " ", " ">>,
    <<"E", "N", "D", "I", "N", "G", " ", " ">>,
    <<"E", "N", "D", "\t", " ", " ", " ", " ">>,
    <<"S", "I", "M", "P", "L", "E", "\t", " ">>,
    <<"S", "I", "M", "P", "L", "E", "X", " ">>,
    <<"X", "T", "E", "N", "S", "I", "O", " ">>,
    <<"H", "I", "S", "T", "O", "R", "Y", " ">>,
    <<"C", "O", "M", "M", "E", "N", "T", " ">>,
    <<" ", " ", " ", " ", " ", " ", " ", " ">>,
    <<"B", "I", "T", "P", "I", "X", "1", " ">>,
    <<"n", "a", "x", "i", "s", "1", " ", " ">>,
    <<"A", "X", "I", "S", "1", " ", " ", " ">>,
    <<"t", "f", "o", "r", "m", "7", " ", " ">>,
    <<"D", "A", "T", "E", "-", "O", "B", "S">>,
    <<"N", "A", "X", "I", "S", "E", "S", " ">>,
    <<"N", "A", "X", "I", "S", " ", "1", " ">>,
    <<"N", "A", "X", "I", "S", "0", "1", " ">>,
    <<"N", "A", "X", "I", "S", "0", "0", "1">>,
    <<"N", "A", "X", "I", "S", "0", " ", " ">>,
    <<"N", "A", "X", "I", "S", "1", " ", "2">>,
    <<"T", "F", "O", "R", "M", "A", "T", " ">>,
    <<"T", "D", "I", "M", " ", " ", " ", " ">>,
    <<"T", "D", "I", "S", "P", " ", " ", " ">>,
    <<"T", "Z", "E", "R", "O", "+", "5", " ">>,
    <<"T", "Z", "E", "R", "O", "-", "5", " ">>,
    <<"T", "D", "I", "M", "7", "0", "0", "0">>,
    <<"T", "D", "I", "M", "9", "9", "9", "9">>,
    <<"T", "T", "Y", "P", "E", "1", "a", " ">>,
    <<"T", "U", "N", "I", "T", "1", ".", "0">>,
    <<"N", "A", "X", "I", "S", "+", " ", " ">>,
    <<"T", "D", "I", "M", "6", "5", "5", "3", "5">>,
    <<"T", "D", "I", "M", "6", "5", "5", "3", "6">>,
    <<"T", "D", "I", "M", "7", "0", "0", "0", "0">>,
    <<"T", "D", "I", "M", "0", "6", "5", "5", "3", "5">>,
    <<"N", "A", "X", "I", "S">>,
    <<"S", "I", "M", "P", "L", "E">>,
    <<>>,
    <<"T", "Z", "E", "R", "O">>,
    <<"S", "I", "M", "P", "L", "E", " ", " ", " ">>,
    <<"N", "A", "X", "I", "S", "1", " ", " ", " ", " ">> }

KeywordInputs ==
  VocabularyFields \cup IndexedFields \cup SuffixFields \cup FreeFields
    \cup ExplicitFields

InitKeyword ==
  /\ input \in KeywordInputs
  /\ op = "none"
  /\ result = NoResult
  /\ pos = 0
  /\ records = <<>>

\* Keyword::from_str(input).
FromStr ==
  /\ op = "none"
  /\ op' = "from_str"
  /\ result' = from_str(input)
  /\ UNCHANGED <<input, pos, records>>

NextKeyword == FromStr

SpecKeyword == InitKeyword /\ [][NextKeyword]_vars

(***************************************************************************)
(* The value grammar as a state machine: a byte string is drawn and one of *)
(* the parsers value, valuecomment, character_string, logical_constant,    *)
(* integer, undefined is applied to it.                                    *)
(***************************************************************************)

\* Longest text drawn over ValueAlphabet.
MaxCoreLen == 3

ValueAlphabet == {"T", "F", "1", "0", "'", " ", "/", "-", "."}

\* Value fields taken from the parser's tests and variations of them.
ExplicitCores ==
  { <<"2", "0", "0", "0", ".", "0">>,
    <<" ", " ", "2", "0", "0", "0", ".", "0", " ">>,
    <<"2", "0", "0", "0", ".", "0", " ", "/", " ", "e", "q", "u", "i", "n", "o", "x">>,
    <<"1", ".", "5", " ", "/", " ", "c", " ">>,
    <<"0", ".", "2", "5">>,
    <<"2", "0", "0", "0">>,
    <<"2", "0", "0", "0", " ", "/", " ", "y", "e", "a", "r">>,
    <<"T", "R", "U", "E">>,
    <<"F", "1">>,
    <<"T", "1", " ", "/", " ", "c">>,
    <<"T", "R", "U", "E", " ", "/", " ", "c">>,
    <<"F", "A", "L", "S", "E">>,
    <<"T", " ", "/", " ", "c", "o", "n", "f", "o", "r", "m", "s", " ", "t", "o", " ", "F", "I", "T", "S", " ">>,
    <<" ", " ", "T", " ", "/", " ", "c">>,
    <<"F", " ", "/", " ", "c">>,
    <<" ", "t", " ">>,
    <<"-", "3", "7">>,
    <<"+", "3", "7">>,
    <<"3", "7">>,
    <<" ", " ", "-", "3", "7", " ", "/", " ", "c">>,
    <<"+", "3", "7", " ", "/", " ", "c">>,
    <<"3", "7", " ", "/", " ", "c">>,
    <<" ", "3", "7", " ", " ", "/", " ", "c", " ">>,
    <<"3", " ", "7">>,
    <<"'", "P", "R", "I", "M", "A", "R", "Y", " ", "'">>,
    <<"'", "P", "R", "I", "M", "A", "R", "Y", " ", "'", " ", "/", " ", "n", "a", "m", "e", " ", "o", "f", " ", "e", "x", "t", "e", "n", "s", "i", "o", "n", " ">>,
    <<"'", " ", "A", "'">>,
    <<"'", " ", " ", "A", " ", "B", " ", " ", "'">>,
    <<" ", " ", " ", "'", "E", "P", "I", "C", " ", "2", "0", "0", "1", "6", "4", "2", "6", "7", "'", " ", " ", " ">>,
    <<"'", "E", "P", "I", "C", " ", "2", "0", "0", "1", "6", "4", "2", "6", "7", "'", " ", " ", " ", " ", " ", "/", " ", "s", "t", "r", "i", "n", "g", " ", "v", "e", "r", "s", "i", "o", "n", " ", "o", "f", " ", "t", "a", "r", "g", "e", "t", " ", "i", "d", " ">>,
    <<"'", "a", "/", "b", "'", " ", "/", " ", "c">>,
    <<"'", "a", "b", "c">>,
    <<"'", "a", "\t", "b", "'">>,
    <<"'", "'", " ", "/", " ", "c">>,
    <<"'", "i", "t", "'", "'", "s", "'">>,
    <<" ", "/", " ", "[", "m", "a", "s", "/", "y", "r", "]", " ", "R", "A", " ", "p", "r", "o", "p", "e", "r", " ", "m", "o", "t", "i", "o", "n", " ">>,
    <<"/", " ", "c">>,
    <<" ", " ", "/">>,
    <<"T", " ", "/", "\t", "c">>,
    <<"8", " ", "/", " ", "a", "\t", "b">>,
    <<"'", "x", "'", " ", "/", " ", " ", "t", "w", "o", " ", " ", "s", "p", "a", "c", "e", "s", " ", " ">>,
    <<"8", " ", "/", "/">>,
    <<"a", "b", "c", " ", "/", " ", "c">>,
    <<"\t">>,
    <<" ", "\t", " ", "/", " ", "c">> }

ValueCores == SeqsUpTo(ValueAlphabet, MaxCoreLen) \cup ExplicitCores

\* The first bytes of a record that follows a window in the buffer.
NextRecordBytes == <<"N", "E", "X", "T">>

\* Each core as it is, right-padded with spaces to the 70-byte window, and
\* as a padded window followed by bytes of the next record.
ValueInputs ==
  ValueCores
    \cup {PadTo(c, ValueWidth) : c \in ValueCores}
    \cup {PadTo(c, ValueWidth) \o NextRecordBytes : c \in ValueCores}

InitValue ==
  /\ input \in ValueInputs
  /\ op = "none"
  /\ result = NoResult
  /\ pos = 0
  /\ records = <<>>

ApplyValue ==
  /\ op = "none"
  /\ op' = "value"
  /\ result' = value(input)
  /\ UNCHANGED <<input, pos, records>>

ApplyValuecomment ==
  /\ op = "none"
  /\ op' = "valuecomment"
  /\ result' = valuecomment(input)
  /\ UNCHANGED <<input, pos, records>>

ApplyCharacterString ==
  /\ op = "none"
  /\ op' = "character_string"
  /\ result' = character_string(input)
  /\ UNCHANGED <<input, pos, records>>

ApplyLogicalConstant ==
  /\ op = "none"
  /\ op' = "logical_constant"
  /\ result' = logical_constant(input)
  /\ UNCHANGED <<input, pos, records>>

ApplyInteger ==
  /\ op = "none"
  /\ op' = "integer"
  /\ result' = integer(input)
  /\ UNCHANGED <<input, pos, records>>

ApplyUndefined ==
  /\ op = "none"
  /\ op' = "undefined"
  /\ result' = undefined(input)
  /\ UNCHANGED <<input, pos, records>>

NextValue ==
  \/ ApplyValue
  \/ ApplyValuecomment
  \/ ApplyCharacterString
  \/ ApplyLogicalConstant
  \/ ApplyInteger
  \/ ApplyUndefined

SpecValue == InitValue /\ [][NextValue]_vars

(***************************************************************************)
(* Properties of the keyword catalogue.                                    *)
(***************************************************************************)

\* s is name followed by nothing but whitespace.
StripsTo(s, name) ==
  /\ starts_with(s, name)
  /\ \A i \in (Len(name) + 1)..Len(s) : is_whitespace(s[i])

\* s is the decimal text of an n with 1 <= n < 1000: one to three digits,
\* the first of them not 0.
IsIndexText(s) ==
  /\ Len(s) \in 1..3
  /\ \A i \in 1..Len(s) : is_digit(s[i])
  /\ s[1] # "0"

\* C1: from_str of a vocabulary name, bare or right-padded with spaces,
\* returns Ok of the variant whose identifier is that name; hence two
\* different names never give the same variant, and the variant's name
\* padded to the field width is the padded input again.
C1_VocabularyRoundTrip ==
  op = "from_str" =>
    \A e \in Range(KeywordEnum) :
      ( /\ e.ident \in Vocabulary
        /\ \E k \in 0..(KeywordWidth - Len(e.ident)) : input = e.ident \o Spaces(k) )
        => /\ result = Ok(Fixed(e.variant))
           /\ \A o \in Vocabulary :
                o # e.ident => from_str(PadTo(o, KeywordWidth)) # result
           /\ PadTo(e.ident, KeywordWidth) = PadTo(input, KeywordWidth)

\* from_str has been applied to "SIMPLE  " and returned SIMPLE.
C1_Witness ==
  /\ op = "from_str"
  /\ input = <<"S", "I", "M", "P", "L", "E", " ", " ">>
  /\ result = Ok(Fixed("SIMPLE"))

\* C2: from_str of a family prefix followed by the decimal digits of n,
\* 1 <= n < 1000, returns Ok of that family's variant with index n.
C2_IndexedFamilies ==
  op = "from_str" =>
    \A e \in Families :
      LET suffix == split_at(input, Len(FamilyPrefix(e)))[2] IN
      (starts_with(input, FamilyPrefix(e)) /\ IsIndexText(suffix))
        => /\ result.ok
           /\ DOMAIN result.val = {"variant", "n"}
           /\ result.val.variant = e.variant
           /\ result.val.n \in 1..999
           /\ to_string(result.val.n) = suffix

\* from_str has been applied to "TZERO999" and returned TZEROn(999).
C2_Witness ==
  /\ op = "from_str"
  /\ input = <<"T", "Z", "E", "R", "O", "9", "9", "9">>
  /\ result = Ok(Indexed("TZEROn", 999))

(***************************************************************************)
(* Properties of the value grammar.                                        *)
(***************************************************************************)

\* s without its leading and trailing whitespace.
StripSpaces(s) ==
  LET n == run_len(s, 1, {" ", "\t"}) IN trim_right(SubSeq(s, n + 1, Len(s)))

\* The part of a value field before its comment: up to the first '/'.
BeforeComment(s) == SubSeq(s, 1, run_len(s, 1, Bytes \ {"/"}))

\* t is digits, '.', digits.
IsFixedReal(t) ==
  \E k \in 2..(Len(t) - 1) :
    /\ t[k] = "."
    /\ \A j \in (1..Len(t)) \ {k} : is_digit(t[j])

\* t is an optional sign followed by one or more digits.
IsSignedInteger(t) ==
  LET ds == IF t # <<>> /\ t[1] \in {"+", "-"} THEN Tail(t) ELSE t IN
  ds # <<>> /\ \A j \in 1..Len(ds) : is_digit(ds[j])

\* t is a quote, content without a quote, a quote.
IsQuoted(t) ==
  /\ Len(t) >= 2
  /\ t[1] = "'"
  /\ t[Len(t)] = "'"
  /\ \A j \in 2..(Len(t) - 1) : is_allowed_in_character_string(t[j])

\* C4: a value field holding digits '.' digits, with optional surrounding
\* whitespace, is parsed by value as Real, not as Integer of the integer
\* part.
C4_RealBeforeInteger ==
  (op = "value" /\ IsFixedReal(StripSpaces(input)))
    => (result.kind = "Done" /\ result.out.tag = "Real")

\* C5: value returns Logical(true) (Logical(false)) exactly when the only
\* token before any comment is the single letter T (F).
C5_LogicalExactlyTOrF ==
  op = "value" =>
    /\ (result.kind = "Done" /\ result.out = Logical(TRUE))
         <=> StripSpaces(BeforeComment(input)) = <<"T">>
    /\ (result.kind = "Done" /\ result.out = Logical(FALSE))
         <=> StripSpaces(BeforeComment(input)) = <<"F">>

\* C6: a value field holding an optional sign and one or more digits, with
\* optional surrounding whitespace, is parsed as Integer of its signed
\* decimal value.
C6_SignedInteger ==
  (op = "value" /\ IsSignedInteger(StripSpaces(input)))
    => /\ result.kind = "Done"
       /\ result.out = Integer(i64_from_str(StripSpaces(input)).val)

\* C7: a value field that is only whitespace before the comment, a window
\* of 70 spaces included, is parsed by value as Undefined.
C7_BlankIsUndefined ==
  (op = "value" /\ BeforeComment(input) # <<>>
     /\ StripSpaces(BeforeComment(input)) = <<>>)
    => (result.kind = "Done" /\ result.out = Undefined)

\* C8: character_string of whitespace, quote, content c, quote, whitespace
\* returns CharacterString(c) with c exactly the bytes between the quotes.
C8_QuotedContentKept ==
  (op = "character_string" /\ IsQuoted(StripSpaces(input)))
    => /\ result.kind = "Done"
       /\ result.out =
            CharacterString(SubSeq(StripSpaces(input), 2, Len(StripSpaces(input)) - 1))

\* t is a value of the grammar: a quoted string, T, F, an integer or a real.
IsValueText(t) ==
  \/ IsQuoted(t)
  \/ t \in {<<"T">>, <<"F">>}
  \/ IsSignedInteger(t)
  \/ IsFixedReal(t)

\* C9: when a value in the 70-byte window is followed by '/', valuecomment
\* returns as comment exactly the bytes after that '/' up to the end of the
\* window, and leaves the bytes after the window as remaining input.
C9_CommentIsRestOfWindow ==
  (op = "valuecomment" /\ Len(input) >= ValueWidth)
    => \A k \in 1..ValueWidth :
         ( /\ input[k] = "/"
           /\ IsValueText(StripSpaces(SubSeq(input, 1, k - 1)))
           /\ \A j \in 1..ValueWidth : is_restricted_ascii(input[j]) )
           => /\ result.kind = "Done"
              /\ result.rest = SubSeq(input, ValueWidth + 1, Len(input))
              /\ result.out[2] = Some(SubSeq(input, k + 1, ValueWidth))

\* The 70-byte window of the buffer.
Window == SubSeq(input, 1, ValueWidth)

\* t is one or more digits.
IsDigits(t) == t # <<>> /\ \A j \in 1..Len(t) : is_digit(t[j])

\* C19: for a 70-byte window that holds a quoted string, T, F or digits
\* and otherwise spaces only, with no '/', valuecomment is Done with that
\* value and no comment.
C19_CommentIsOptional ==
  ( /\ op = "valuecomment"
    /\ Len(input) >= ValueWidth
    /\ \A j \in 1..ValueWidth : is_restricted_ascii(input[j]) /\ input[j] # "/"
    /\ \/ IsQuoted(StripSpaces(Window))
       \/ StripSpaces(Window) \in {<<"T">>, <<"F">>}
       \/ IsDigits(StripSpaces(Window)) )
    => /\ result.kind = "Done"
       /\ result.out[2] = None
       /\ result.out[1].tag \in {"CharacterString", "Logical", "Integer"}

(***************************************************************************)
(* Keyword records and the primary header.                                 *)
(***************************************************************************)

\* KeywordRecord::new(keyword, value, comment).
KeywordRecord(k, v, c) == [keyword |-> k, value |-> v, comment |-> c]

\* PrimaryHeader::new(records).
PrimaryHeader(rs) == [keyword_records |-> rs]

\* The unit struct BlankRecord.
BlankRecord == [tag |-> "BlankRecord"]

\* map_res!(map_res!(take!(8), str::from_utf8), Keyword::from_str).
keyword(i) ==
  The({ The({ map_res(u, from_str(u.out)) :
              u \in {map_res(t, from_utf8(t.out))} }) :
        t \in {take(i, KeywordWidth)} })

\* do_parse!(key: keyword >> tag!("= ") >> vc: valuecomment >> ...).
keyword_record(i) ==
  The({ IF key.kind # "Done" THEN key
        ELSE The({ IF s.kind # "Done" THEN s
                   ELSE The({ IF vc.kind # "Done" THEN vc
                              ELSE Done(vc.rest,
                                        KeywordRecord(key.out, vc.out[1], vc.out[2])) :
                              vc \in {valuecomment(s.rest)} }) :
                   s \in {tag(key.rest, <<"=", " ">>)} }) :
        key \in {keyword(i)} })

\* Width of a record.
RecordWidth == 80

\* flat_map!(take!(80), pair!(tag!("END"), many0!(tag!(" ")))) mapped to
\* Keyword::END: many0! ends with Done at the first byte that is no space,
\* and what the pair leaves of the 80 bytes is dropped.
end_record(i) ==
  LET r == take(i, RecordWidth) IN
  IF r.kind # "Done" THEN r
  ELSE LET e == tag(r.out, <<"E", "N", "D">>) IN
       IF e.kind # "Done" THEN e
       ELSE LET p == take_while(e.rest, {" "}) IN
            IF p.kind # "Done" THEN p ELSE Done(r.rest, Fixed("END"))

\* count!(tag!(" "), 80): Error at a byte that is no space, Incomplete when
\* the input ends first.
blank_record(i) ==
  LET m == IF Len(i) < RecordWidth THEN Len(i) ELSE RecordWidth
      n == run_len(SubSeq(i, 1, m), 1, {" "})
  IN IF n = RecordWidth THEN Done(SubSeq(i, RecordWidth + 1, Len(i)), BlankRecord)
     ELSE IF n = Len(i) THEN Incomplete
     ELSE Error

\* One 80-byte record: an 8-byte keyword field followed by the text after it.
Record(field, text) == PadTo(PadTo(field, KeywordWidth) \o text, RecordWidth)

\* Size of a block.
BlockSize == 2880

\* Largest number of records before the end of a header buffer.
MaxRecords == 2

\* The records header buffers are built from: with and without comment,
\* unknown keyword, indexed keyword, real value, END with a value, missing
\* "= ", a keyword field that is not UTF-8, a record starting with END that
\* is not the END marker, and an indexed keyword without a number.
RecordTemplates ==
  { Record(<<"S","I","M","P","L","E">>, <<"=", " ", "T", " ", "/", " ", "c">>),
    Record(<<"B","I","T","P","I","X">>, <<"=", " ", " ", "8">>),
    Record(<<"s","i","m","p","l","e">>, <<"=", " ", "'", "a", "'", " ", "/", "c">>),
    Record(<<"N","A","X","I","S","1">>, <<"=", " ", " ", "3", " ", "/">>),
    Record(<<"E","Q","U","I","N","O","X">>, <<"=", " ", "2", ".", "0", " ", "/", " ", "c">>),
    Record(<<"E","N","D">>, <<"=", " ", "1", " ", "/", " ", "c">>),
    Record(<<"N","A","X","I","S">>, <<" ", " ", "0", " ", "/", " ", "c">>),
    Record(<<"O","B","J","xFF">>, <<"=", " ", "T", " ", "/", " ", "c">>),
    Record(<<"E","N","D","I","N","G">>, <<>>),
    Record(<<"T","F","O","R","M","A","T">>, <<"=", " ", "1", " ", "/", " ", "c">>) }

\* The END marker record and the all-space record.
EndMarker == Record(<<"E","N","D">>, <<>>)

BlankBytes(n) == Spaces(n)

RECURSIVE Concat(_)
Concat(ss) == IF ss = <<>> THEN <<>> ELSE Head(ss) \o Concat(Tail(ss))

\* What follows the keyword records of a buffer: nothing, the END marker
\* alone, with blank records, with a record after it, with a cut blank
\* record, or cut inside.
ShortTails ==
  { <<>>,
    EndMarker,
    EndMarker \o BlankBytes(RecordWidth),
    EndMarker \o BlankBytes(2 * RecordWidth),
    EndMarker \o Record(<<"S","I","M","P","L","E">>, <<"=", " ", "T", " ", "/", " ", "c">>),
    EndMarker \o BlankBytes(RecordWidth) \o EndMarker,
    EndMarker \o BlankBytes(RecordWidth \div 2),
    SubSeq(EndMarker, 1, RecordWidth \div 2) }

\* Buffers of up to MaxRecords records and a short tail.
ShortBuffers ==
  { Concat(rs) \o tl : rs \in SeqsUpTo(RecordTemplates, MaxRecords), tl \in ShortTails }

\* Buffers of whole blocks: one record, the END marker, blank records up to
\* the block boundary, and then nothing, a blank record or another record.
BlockTails(r) == { <<>>, BlankBytes(RecordWidth), r, BlankBytes(BlockSize) }

BlockBuffers ==
  UNION { { r \o EndMarker \o BlankBytes(BlockSize - 2 * RecordWidth) \o tl :
              tl \in BlockTails(r) } : r \in RecordTemplates }

\* Where a buffer is cut inside its last record: in the keyword field,
\* behind it, inside and behind "= ", and inside the 70-byte window.
CutOffsets == {3, 8, 9, 10, 40, 79}

\* Buffers cut inside a record or inside the END marker.
CutBuffers ==
  { Concat(rs) \o SubSeq(r, 1, c) :
      rs \in SeqsUpTo(RecordTemplates, MaxRecords - 1),
      r \in RecordTemplates \cup {EndMarker},
      c \in CutOffsets }

HeaderBuffers == ShortBuffers \cup BlockBuffers \cup CutBuffers

InitHeader ==
  /\ input \in HeaderBuffers
  /\ op = "many0_keyword_record"
  /\ result = NoResult
  /\ pos = 0
  /\ records = <<>>

\* The input that is left at pos.
Remaining == SubSeq(input, pos + 1, Len(input))

\* One iteration of many0!(keyword_record): the repetition ends at the end
\* of the input and at an Error of keyword_record, passes an Incomplete on,
\* and otherwise pushes the record and goes on behind it.
KeywordRecordStep ==
  /\ op = "many0_keyword_record"
  /\ \E i \in {Remaining} :
       \E r \in {IF i = <<>> THEN Error ELSE keyword_record(i)} :
         /\ op' = IF r.kind = "Done"
                  THEN IF Len(r.rest) = Len(i) THEN "done" ELSE "many0_keyword_record"
                  ELSE IF r.kind = "Incomplete" THEN "done"
                  ELSE "end_record"
         /\ result' = IF r.kind = "Done"
                      THEN IF Len(r.rest) = Len(i) THEN Error ELSE result
                      ELSE IF r.kind = "Incomplete" THEN Incomplete
                      ELSE result
         /\ records' = IF r.kind = "Done" THEN Append(records, r.out) ELSE records
         /\ pos' = IF r.kind = "Done" THEN Len(input) - Len(r.rest) ELSE pos
  /\ UNCHANGED input

\* end_record after the repetition: its Error or Incomplete is the result
\* of primary_header.
EndRecord ==
  /\ op = "end_record"
  /\ \E i \in {Remaining} :
       \E r \in {end_record(i)} :
         /\ op' = IF r.kind = "Done" THEN "many0_blank_record" ELSE "done"
         /\ result' = IF r.kind = "Done" THEN result ELSE r
         /\ pos' = IF r.kind = "Done" THEN Len(input) - Len(r.rest) ELSE pos
  /\ UNCHANGED <<input, records>>

\* One iteration of many0!(blank_record): when the repetition ends,
\* primary_header is Done with the records collected.
BlankRecordStep ==
  /\ op = "many0_blank_record"
  /\ \E i \in {Remaining} :
       \E r \in {IF i = <<>> THEN Error ELSE blank_record(i)} :
         /\ op' = IF r.kind = "Done" THEN "many0_blank_record" ELSE "done"
         /\ result' = IF r.kind = "Done" THEN result
                      ELSE IF r.kind = "Incomplete" THEN Incomplete
                      ELSE Done(i, PrimaryHeader(records))
         /\ pos' = IF r.kind = "Done" THEN Len(input) - Len(r.rest) ELSE pos
  /\ UNCHANGED <<input, records>>

NextHeader == KeywordRecordStep \/ EndRecord \/ BlankRecordStep

SpecHeader == InitHeader /\ [][NextHeader]_vars

(***************************************************************************)
(* Properties of the primary header.                                       *)
(***************************************************************************)

\* The j-th 80-byte record of the buffer.
RecordAt(j) == SubSeq(input, (j - 1) * RecordWidth + 1, j * RecordWidth)

\* w holds a value of the grammar, alone or followed by a '/' comment.
HoldsValueAndComment(w) ==
  \/ IsValueText(StripSpaces(w))
  \/ \E k \in 1..Len(w) :
       w[k] = "/" /\ IsValueText(StripSpaces(SubSeq(w, 1, k - 1)))

\* r is a well-formed keyword record: printable bytes, a keyword field
\* that from_str accepts, "= " in bytes 9 and 10, and a value with an
\* optional comment in the 70 bytes after them.
WellFormedRecord(r) ==
  /\ Len(r) = RecordWidth
  /\ \A j \in 1..Len(r) : is_restricted_ascii(r[j])
  /\ from_str(SubSeq(r, 1, KeywordWidth)).ok
  /\ SubSeq(r, KeywordWidth + 1, KeywordWidth + 2) = <<"=", " ">>
  /\ HoldsValueAndComment(SubSeq(r, KeywordWidth + 3, RecordWidth))

\* C10: for a buffer of n well-formed keyword records followed by the END
\* marker record, primary_header is Done with exactly n keyword records, in
\* the order of the buffer, whatever records follow the END marker.
C10_RecordsUpToFirstEnd ==
  \A n \in 0..(Len(input) \div RecordWidth) :
    ( /\ op = "done"
      /\ Len(input) % RecordWidth = 0
      /\ Len(input) >= (n + 1) * RecordWidth
      /\ \A j \in 1..n : WellFormedRecord(RecordAt(j))
      /\ RecordAt(n + 1) = EndMarker )
      => /\ result.kind = "Done"
         /\ Len(result.out.keyword_records) = n
         /\ \A j \in 1..n :
              result.out.keyword_records[j].keyword =
                from_str(SubSeq(RecordAt(j), 1, KeywordWidth)).val

\* The buffer is the front of a header of well-formed records, cut before
\* the end of the END marker: whole well-formed records, and then the
\* front, less than 80 bytes, of a well-formed record or of the END marker.
IsCutHeader ==
  LET k == Len(input) \div RecordWidth
      cut == SubSeq(input, k * RecordWidth + 1, Len(input))
  IN /\ \A j \in 1..k : WellFormedRecord(RecordAt(j))
     /\ \E r \in {t \in RecordTemplates : WellFormedRecord(t)} \cup {EndMarker} :
          cut = SubSeq(r, 1, Len(cut))

\* C16: on a buffer that is the front of a header of well-formed records,
\* cut at a record boundary or inside a record before the end of the END
\* marker, primary_header returns Incomplete, neither Done nor Error.
C16_CutHeaderIsIncomplete ==
  (op = "done" /\ IsCutHeader) => result.kind = "Incomplete"

\* primary_header has returned on a record followed by the first 40 bytes of
\* the END marker.
C16_Witness ==
  /\ op = "done"
  /\ IsCutHeader
  /\ Len(input) = RecordWidth + RecordWidth \div 2
  /\ SubSeq(input, RecordWidth + 1, Len(input)) = SubSeq(EndMarker, 1, RecordWidth \div 2)
  /\ result.kind = "Incomplete"

\* r is a malformed record: its keyword field is not UTF-8 or from_str
\* returns an error for it, or its bytes 9 and 10 are not "= ".
MalformedRecord(r) ==
  \/ ~from_utf8(SubSeq(r, 1, KeywordWidth)).ok
  \/ ~from_str(SubSeq(r, 1, KeywordWidth)).ok
  \/ SubSeq(r, KeywordWidth + 1, KeywordWidth + 2) # <<"=", " ">>

\* C20: for a buffer of whole records whose first END marker is record
\* n + 1, if one of the n records before it is malformed then
\* primary_header returns Error.
C20_MalformedRecordIsError ==
  \A n \in 1..(Len(input) \div RecordWidth) :
    ( /\ op = "done"
      /\ Len(input) % RecordWidth = 0
      /\ Len(input) >= (n + 1) * RecordWidth
      /\ \A j \in 1..n : RecordAt(j) # EndMarker
      /\ RecordAt(n + 1) = EndMarker
      /\ \E j \in 1..n : MalformedRecord(RecordAt(j)) )
      => result.kind = "Error"

\* C21: whenever end_record has succeeded on an 80-byte record, that record
\* is "END" followed by 77 spaces.
C21_EndRecordIsExactlyEnd ==
  (op = "many0_blank_record" /\ pos = (Len(records) + 1) * RecordWidth)
    => RecordAt(Len(records) + 1) = EndMarker

\* C26: no header primary_header returns holds a keyword record whose
\* keyword is END.
C26_EndIsNeverStored ==
  (op = "done" /\ result.kind = "Done")
    => \A j \in 1..Len(result.out.keyword_records) :
         result.out.keyword_records[j].keyword # Fixed("END")

\* The keyword catalogue on its own and inside the header parser.
InitKeywordInHeader == InitKeyword \/ InitHeader

NextKeywordInHeader == NextKeyword \/ NextHeader

SpecKeywordInHeader == InitKeywordInHeader /\ [][NextKeywordInHeader]_vars

\* f, trailing whitespace stripped, is no vocabulary name and starts with
\* no family prefix.
IsUnknownField(f) ==
  /\ Len(f) = KeywordWidth
  /\ \A name \in Vocabulary : ~StripsTo(f, name)
  /\ \A e \in Families : ~starts_with(f, FamilyPrefix(e))

\* r holds a '/' after its "= ".
HasComment(r) == \E k \in (KeywordWidth + 3)..Len(r) : r[k] = "/"

C11_HeaderEndsAtBlockBoundary ==
  (op = "done" /\ result.kind = "Done")
    => /\ pos % BlockSize = 0
       /\ pos >= BlockSize
       /\ pos - (Len(records) + 1) * RecordWidth < BlockSize

(***************************************************************************)
(* The size of the data array (src/src/types/mod.rs, impl Header).         *)
(*                                                                         *)
(* A header h is the sequence of its keyword records.  A usize is written  *)
(* [wrapped |-> FALSE, n |-> v] for the value v and                        *)
(* [wrapped |-> TRUE, n |-> m] for the value 2^64 - m, the outcome of      *)
(* casting the negative i64 -m.  A panic is the Err outcome "panic".       *)
(***************************************************************************)

\* Header::has_keyword_record.
has_keyword_record(h, kw) == \E j \in 1..Len(h) : kw = h[j].keyword

\* is_primary that asks for SIMPLE = T.
is_primary_simple_is_true(h) ==
  \E j \in 1..Len(h) :
    h[j].keyword = Fixed("SIMPLE") /\ h[j].value = Logical(TRUE)

\* Header::is_primary.
is_primary(h) == has_keyword_record(h, Fixed("SIMPLE"))

\* Header::value_of: the value of the first record with the keyword.
value_of(h, kw) ==
  IF has_keyword_record(h, kw)
  THEN Ok(h[CHOOSE j \in 1..Len(h) :
              /\ h[j].keyword = kw
              /\ \A m \in 1..(j - 1) : h[m].keyword # kw].value)
  ELSE Err("KeywordNotPresent")

\* Header::integer_value_of.
integer_value_of(h, kw) ==
  The({ IF ~v.ok THEN v
        ELSE IF v.val.tag = "Integer" THEN Ok(v.val.n)
        ELSE Err("NotAnInteger") :
        v \in {value_of(h, kw)} })

\* Result::unwrap_or.
unwrap_or(r, default) == IF r.ok THEN r.val ELSE default

\* i64::abs.
abs(n) == IF n < 0 THEN 0 - n ELSE n

\* The loop of naxis_product with unwrap_or(1) in place of expect: an axis
\* without an integer counts as 1.
RECURSIVE naxis_loop_skips_missing(_, _, _, _)
naxis_loop_skips_missing(h, n, limit, product) ==
  IF n >= limit THEN Ok(product)
  ELSE The({ naxis_loop_skips_missing(h, n + 1, limit, product * unwrap_or(d, 1)) :
             d \in {integer_value_of(h, Indexed("NAXISn", (n + 1) % (U16Max + 1)))} })

\* The loop of naxis_product from n on: Err("panic") at the first NAXISn
\* for which expect meets an Err.  The index is cast to u16.
RECURSIVE naxis_loop(_, _, _, _)
naxis_loop(h, n, limit, product) ==
  IF n >= limit THEN Ok(product)
  ELSE The({ IF ~d.ok THEN Err("panic")
             ELSE naxis_loop(h, n + 1, limit, product * d.val) :
             d \in {integer_value_of(h, Indexed("NAXISn", (n + 1) % (U16Max + 1)))} })

\* Header::naxis_product.
naxis_product(h) ==
  The({ IF limit > 0 THEN naxis_loop(h, 0, limit, 1) ELSE Ok(0) :
        limit \in {unwrap_or(integer_value_of(h, Fixed("NAXIS")), 0)} })

\* The cast of an i64 to usize.
as_usize(n) ==
  IF n >= 0 THEN [wrapped |-> FALSE, n |-> n] ELSE [wrapped |-> TRUE, n |-> 0 - n]

\* Header::primary_data_array_size.
primary_data_array_size(h) ==
  The({ IF ~p.ok THEN p
        ELSE Ok(as_usize(abs(unwrap_or(integer_value_of(h, Fixed("BITPIX")), 0)) * p.val)) :
        p \in {naxis_product(h)} })

\* extention_data_array_size with 0 as the default of GCOUNT.
extention_data_array_size_gcount_0(h) ==
  The({ IF ~p.ok THEN p
        ELSE Ok(as_usize(abs(unwrap_or(integer_value_of(h, Fixed("BITPIX")), 0))
                         * unwrap_or(integer_value_of(h, Fixed("GCOUNT")), 0)
                         * (unwrap_or(integer_value_of(h, Fixed("PCOUNT")), 0) + p.val))) :
        p \in {naxis_product(h)} })

\* Header::extention_data_array_size.
extention_data_array_size(h) ==
  The({ IF ~p.ok THEN p
        ELSE Ok(as_usize(abs(unwrap_or(integer_value_of(h, Fixed("BITPIX")), 0))
                         * unwrap_or(integer_value_of(h, Fixed("GCOUNT")), 1)
                         * (unwrap_or(integer_value_of(h, Fixed("PCOUNT")), 0) + p.val))) :
        p \in {naxis_product(h)} })

\* lmle rounding down: the remainder is dropped.
lmle_rounds_down(n, k) == (n \div k) * k

\* lmle that always adds a block, also when n is a multiple of k.
lmle_always_adds(n, k) == (n \div k + 1) * k

\* lmle: the least multiple of k that is >= n.
lmle(n, k) ==
  LET q == n \div k
      r == n % k
  IN IF r = 0 THEN q * k ELSE (q + 1) * k

\* Number of bits of a usize.
UsizeBits == 64

\* 2^e modulo k.
RECURSIVE pow2_mod(_, _)
pow2_mod(e, k) == IF e = 0 THEN 1 % k ELSE (2 * pow2_mod(e - 1, k)) % k

\* lmle on a usize.  For 2^64 - m the remainder is taken modulo k from
\* 2^64 mod k, and (q + 1) * k may pass 2^64: a debug build panics on the
\* overflow and a release build wraps.
lmle_usize(u, k, build) ==
  IF ~u.wrapped THEN Ok(as_usize(lmle(u.n, k)))
  ELSE The({ IF r = 0 THEN Ok(u)
             ELSE IF u.n + r - k > 0 THEN Ok([wrapped |-> TRUE, n |-> u.n + r - k])
             ELSE IF build = "debug" THEN Err("panic")
             ELSE Ok(as_usize(k - r - u.n)) :
             r \in {(pow2_mod(UsizeBits, k) - u.n) % k} })

\* Header::data_array_size.
data_array_size(h, build) ==
  The({ IF ~s.ok THEN s ELSE lmle_usize(s.val, BlockSize * 8, build) :
        s \in {IF is_primary(h) THEN primary_data_array_size(h)
               ELSE extention_data_array_size(h)} })

(***************************************************************************)
(* data_array_size applied to headers.                                     *)
(***************************************************************************)

\* Largest NAXIS value the headers are drawn with; NAXIS1..NAXISn records
\* are drawn for n up to it.
MaxNaxis == 2

BitpixValues == {8, -64, 128}

NaxisValues == (-1)..MaxNaxis

AxisValues == {-2, 0, 3, 5, 100}

GcountValues == {7, -1}

PcountValues == {11, -20}

\* No record, a record with each integer of vs, or a record whose value is
\* no integer.
RecordOptions(kw, vs) ==
  {<<>>, <<KeywordRecord(kw, CharacterString(<<"x">>), None)>>}
    \cup {<<KeywordRecord(kw, Integer(v), None)>> : v \in vs}

\* A record with each integer of vs.
IntegerRecords(kw, vs) == {<<KeywordRecord(kw, Integer(v), None)>> : v \in vs}

\* The NAXIS1..NAXISn records, each drawn from RecordOptions when any is
\* TRUE and from the records with a positive axis length otherwise.
RECURSIVE AxisRecords(_, _)
AxisRecords(n, any) ==
  IF n = 0 THEN {<<>>}
  ELSE {rs \o r : rs \in AxisRecords(n - 1, any),
                  r \in IF any THEN RecordOptions(Indexed("NAXISn", n), AxisValues)
                        ELSE IntegerRecords(Indexed("NAXISn", n), {3, 5})}

\* What a header starts and ends with: nothing, SIMPLE = T in front,
\* XTENSION in front, or XTENSION in front and SIMPLE = F at the end.
HeaderFrames ==
  { <<<<>>, <<>>>>,
    <<<<KeywordRecord(Fixed("SIMPLE"), Logical(TRUE), None)>>, <<>>>>,
    <<<<KeywordRecord(Fixed("XTENSION"), CharacterString(<<"B">>), None)>>, <<>>>>,
    <<<<KeywordRecord(Fixed("XTENSION"), CharacterString(<<"B">>), None)>>,
      <<KeywordRecord(Fixed("SIMPLE"), Logical(FALSE), None)>>>> }

\* Headers with every choice of axis records and no GCOUNT or PCOUNT, and
\* headers with positive axis lengths and every choice of GCOUNT and PCOUNT.
Headers ==
  { f[1] \o b \o n \o a \o f[2] :
      f \in HeaderFrames,
      b \in RecordOptions(Fixed("BITPIX"), BitpixValues),
      n \in RecordOptions(Fixed("NAXIS"), NaxisValues),
      a \in AxisRecords(MaxNaxis, TRUE) }
  \cup
  { f[1] \o b \o n \o a \o g \o p \o f[2] :
      f \in HeaderFrames,
      b \in RecordOptions(Fixed("BITPIX"), BitpixValues),
      n \in RecordOptions(Fixed("NAXIS"), NaxisValues),
      a \in AxisRecords(MaxNaxis, FALSE),
      g \in RecordOptions(Fixed("GCOUNT"), GcountValues),
      p \in RecordOptions(Fixed("PCOUNT"), PcountValues) }

\* The builds of the crate: overflow checks on (debug) or off (release).
Builds == {"debug", "release"}

InitSize ==
  /\ records \in Headers
  /\ input = <<>>
  /\ op = "none"
  /\ result = NoResult
  /\ pos = 0

\* header.data_array_size() on the header held in records.
DataArraySize ==
  /\ op = "none"
  /\ \E build \in Builds :
       /\ op' = "data_array_size"
       /\ result' = data_array_size(records, build)
  /\ UNCHANGED <<input, pos, records>>

NextSize == DataArraySize

SpecSize == InitSize /\ [][NextSize]_vars

(***************************************************************************)
(* Properties of the size of the data array.                               *)
(***************************************************************************)

\* The header holds exactly one record with keyword kw, with an integer
\* value.
HasInteger(kw) ==
  /\ Cardinality({j \in 1..Len(records) : records[j].keyword = kw}) = 1
  /\ \A j \in 1..Len(records) :
       records[j].keyword = kw => records[j].value.tag = "Integer"

HasNo(kw) == \A j \in 1..Len(records) : records[j].keyword # kw

\* The integer of that record.
IntegerOf(kw) ==
  records[CHOOSE j \in 1..Len(records) : records[j].keyword = kw].value.n

\* NAXIS1 * ... * NAXISk.
RECURSIVE AxisProduct(_)
AxisProduct(k) ==
  IF k = 0 THEN 1 ELSE IntegerOf(Indexed("NAXISn", k)) * AxisProduct(k - 1)

\* NAXIS1..NAXISk are integers, none negative.
AxesGiven(k) ==
  \A n \in 1..k :
    HasInteger(Indexed("NAXISn", n)) /\ IntegerOf(Indexed("NAXISn", n)) >= 0

\* The least multiple of k that is >= x.
LeastMultiple(x, k) ==
  CHOOSE m \in {q * k : q \in 0..(x \div k + 1)} : m >= x /\ m - k < x

BitsPerBlock == BlockSize * 8

Magnitude(n) == IF n < 0 THEN 0 - n ELSE n

\* C12: for a header with a SIMPLE record, integer BITPIX = b, NAXIS = k >= 1
\* and integer NAXIS1..NAXISk >= 0, data_array_size returns the least
\* multiple of 2880*8 that is >= |b| * NAXIS1 * ... * NAXISk.
C12_PrimarySize ==
  ( /\ op = "data_array_size"
    /\ ~HasNo(Fixed("SIMPLE"))
    /\ HasInteger(Fixed("BITPIX"))
    /\ HasInteger(Fixed("NAXIS"))
    /\ IntegerOf(Fixed("NAXIS")) >= 1
    /\ AxesGiven(IntegerOf(Fixed("NAXIS"))) )
    => result =
         Ok([wrapped |-> FALSE,
             n |-> LeastMultiple(Magnitude(IntegerOf(Fixed("BITPIX")))
                                   * AxisProduct(IntegerOf(Fixed("NAXIS"))),
                                 BitsPerBlock)])

\* data_array_size of SIMPLE = T, BITPIX = 8, NAXIS = 2, NAXIS1 = 3,
\* NAXIS2 = 5 has returned one block.
C12_Witness ==
  /\ op = "data_array_size"
  /\ records = << KeywordRecord(Fixed("SIMPLE"), Logical(TRUE), None),
                  KeywordRecord(Fixed("BITPIX"), Integer(8), None),
                  KeywordRecord(Fixed("NAXIS"), Integer(2), None),
                  KeywordRecord(Indexed("NAXISn", 1), Integer(3), None),
                  KeywordRecord(Indexed("NAXISn", 2), Integer(5), None) >>
  /\ result = Ok([wrapped |-> FALSE, n |-> 23040])

\* The product of the axes as the extension formula uses it: 0 when NAXIS
\* is not positive.
NaxisProduct ==
  IF IntegerOf(Fixed("NAXIS")) >= 1 THEN AxisProduct(IntegerOf(Fixed("NAXIS"))) ELSE 0

\* GCOUNT and PCOUNT, with 1 and 0 for a header without the record.
GcountOr1 == IF HasNo(Fixed("GCOUNT")) THEN 1 ELSE IntegerOf(Fixed("GCOUNT"))

PcountOr0 == IF HasNo(Fixed("PCOUNT")) THEN 0 ELSE IntegerOf(Fixed("PCOUNT"))

\* C13: for a header without a SIMPLE record, with integer BITPIX = b, naxis
\* product p, GCOUNT = g (1 without the record) and PCOUNT = c (0 without
\* the record), none negative, data_array_size returns the least multiple
\* of 2880*8 that is >= |b| * g * (c + p).
C13_ExtensionSize ==
  ( /\ op = "data_array_size"
    /\ HasNo(Fixed("SIMPLE"))
    /\ HasInteger(Fixed("BITPIX"))
    /\ HasInteger(Fixed("NAXIS"))
    /\ IntegerOf(Fixed("NAXIS")) >= 0
    /\ AxesGiven(IntegerOf(Fixed("NAXIS")))
    /\ HasNo(Fixed("GCOUNT")) \/ (HasInteger(Fixed("GCOUNT")) /\ IntegerOf(Fixed("GCOUNT")) >= 0)
    /\ HasNo(Fixed("PCOUNT")) \/ (HasInteger(Fixed("PCOUNT")) /\ IntegerOf(Fixed("PCOUNT")) >= 0) )
    => result =
         Ok([wrapped |-> FALSE,
             n |-> LeastMultiple(Magnitude(IntegerOf(Fixed("BITPIX")))
                                   * GcountOr1 * (PcountOr0 + NaxisProduct),
                                 BitsPerBlock)])

\* data_array_size of XTENSION, BITPIX = 128, NAXIS = 2, NAXIS1 = 3,
\* NAXIS2 = 5, GCOUNT = 7, PCOUNT = 11 has returned two blocks.
C13_Witness ==
  /\ op = "data_array_size"
  /\ records = << KeywordRecord(Fixed("XTENSION"), CharacterString(<<"B">>), None),
                  KeywordRecord(Fixed("BITPIX"), Integer(128), None),
                  KeywordRecord(Fixed("NAXIS"), Integer(2), None),
                  KeywordRecord(Indexed("NAXISn", 1), Integer(3), None),
                  KeywordRecord(Indexed("NAXISn", 2), Integer(5), None),
                  KeywordRecord(Fixed("GCOUNT"), Integer(7), None),
                  KeywordRecord(Fixed("PCOUNT"), Integer(11), None) >>
  /\ result = Ok([wrapped |-> FALSE, n |-> 46080])

\* GCOUNT and PCOUNT are absent or integers that are not negative.
CountsGiven ==
  /\ HasNo(Fixed("GCOUNT")) \/ (HasInteger(Fixed("GCOUNT")) /\ IntegerOf(Fixed("GCOUNT")) >= 0)
  /\ HasNo(Fixed("PCOUNT")) \/ (HasInteger(Fixed("PCOUNT")) /\ IntegerOf(Fixed("PCOUNT")) >= 0)

\* C22: for a header with integer BITPIX, NAXIS >= 0 and axes,
\* data_array_size is the primary size, whatever GCOUNT and PCOUNT records
\* the header holds, if some record has keyword SIMPLE (whatever its value
\* and position, with or without XTENSION), and the extension size if none
\* has.
C22_PrimaryIffSimple ==
  ( /\ op = "data_array_size"
    /\ HasInteger(Fixed("BITPIX"))
    /\ HasInteger(Fixed("NAXIS"))
    /\ IntegerOf(Fixed("NAXIS")) >= 0
    /\ AxesGiven(IntegerOf(Fixed("NAXIS"))) )
    => IF \E j \in 1..Len(records) : records[j].keyword = Fixed("SIMPLE")
       THEN result =
              Ok([wrapped |-> FALSE,
                  n |-> LeastMultiple(Magnitude(IntegerOf(Fixed("BITPIX"))) * NaxisProduct,
                                      BitsPerBlock)])
       ELSE CountsGiven =>
              result =
                Ok([wrapped |-> FALSE,
                    n |-> LeastMultiple(Magnitude(IntegerOf(Fixed("BITPIX")))
                                          * GcountOr1 * (PcountOr0 + NaxisProduct),
                                        BitsPerBlock)])

\* data_array_size of XTENSION, BITPIX = 128, NAXIS = 2, NAXIS1 = 3,
\* NAXIS2 = 5, GCOUNT = 7, PCOUNT = 11, SIMPLE = F has returned one block,
\* the primary size, and not the two blocks of the extension size.
C22_Witness ==
  /\ op = "data_array_size"
  /\ records = << KeywordRecord(Fixed("XTENSION"), CharacterString(<<"B">>), None),
                  KeywordRecord(Fixed("BITPIX"), Integer(128), None),
                  KeywordRecord(Fixed("NAXIS"), Integer(2), None),
                  KeywordRecord(Indexed("NAXISn", 1), Integer(3), None),
                  KeywordRecord(Indexed("NAXISn", 2), Integer(5), None),
                  KeywordRecord(Fixed("GCOUNT"), Integer(7), None),
                  KeywordRecord(Fixed("PCOUNT"), Integer(11), None),
                  KeywordRecord(Fixed("SIMPLE"), Logical(FALSE), None) >>
  /\ result = Ok([wrapped |-> FALSE, n |-> 23040])

\* No record with keyword kw holds an integer.
HasNoInteger(kw) ==
  \A j \in 1..Len(records) :
    records[j].keyword = kw => records[j].value.tag # "Integer"

\* C23: for a header with integer NAXIS = k >= 1 in which some NAXISn,
\* 1 <= n <= k, is absent or holds no integer, data_array_size panics and
\* returns no size, with and without a SIMPLE record.
C23_MissingAxisPanics ==
  ( /\ op = "data_array_size"
    /\ HasInteger(Fixed("NAXIS"))
    /\ IntegerOf(Fixed("NAXIS")) >= 1
    /\ \E n \in 1..IntegerOf(Fixed("NAXIS")) : HasNoInteger(Indexed("NAXISn", n)) )
    => result = Err("panic")

\* data_array_size of XTENSION, BITPIX = 8, NAXIS = 2, NAXIS1 = 3 and a
\* NAXIS2 record that holds a string has panicked.
C23_Witness ==
  /\ op = "data_array_size"
  /\ records = << KeywordRecord(Fixed("XTENSION"), CharacterString(<<"B">>), None),
                  KeywordRecord(Fixed("BITPIX"), Integer(8), None),
                  KeywordRecord(Fixed("NAXIS"), Integer(2), None),
                  KeywordRecord(Indexed("NAXISn", 1), Integer(3), None),
                  KeywordRecord(Indexed("NAXISn", 2), CharacterString(<<"x">>), None) >>
  /\ result = Err("panic")

\* C24: for a header without a BITPIX record, or whose BITPIX or NAXIS
\* record holds no integer, data_array_size returns no size but an error.
C24_InconsistentHeaderIsFatal ==
  ( /\ op = "data_array_size"
    /\ \/ HasNo(Fixed("BITPIX"))
       \/ ~HasNo(Fixed("BITPIX")) /\ HasNoInteger(Fixed("BITPIX"))
       \/ ~HasNo(Fixed("NAXIS")) /\ HasNoInteger(Fixed("NAXIS")) )
    => ~result.ok

\* NAXIS1..NAXISk are integers of either sign.
AxesAreIntegers(k) == \A n \in 1..k : HasInteger(Indexed("NAXISn", n))

\* The bit size of the formula that data_array_size uses for the header.
FormulaBits ==
  IF ~HasNo(Fixed("SIMPLE"))
  THEN Magnitude(IntegerOf(Fixed("BITPIX"))) * NaxisProduct
  ELSE Magnitude(IntegerOf(Fixed("BITPIX"))) * GcountOr1 * (PcountOr0 + NaxisProduct)

\* C27: for a header whose BITPIX, NAXIS >= 0, NAXISn, GCOUNT and PCOUNT are
\* integers of either sign (GCOUNT and PCOUNT may be absent), data_array_size
\* returns a size that has not wrapped, is a multiple of 2880*8, and exceeds
\* the magnitude of the bit size of the formula by less than 2880*8.
C27_NegativeProductDoesNotWrap ==
  ( /\ op = "data_array_size"
    /\ HasInteger(Fixed("BITPIX"))
    /\ HasInteger(Fixed("NAXIS"))
    /\ IntegerOf(Fixed("NAXIS")) >= 0
    /\ AxesAreIntegers(IntegerOf(Fixed("NAXIS")))
    /\ HasNo(Fixed("GCOUNT")) \/ HasInteger(Fixed("GCOUNT"))
    /\ HasNo(Fixed("PCOUNT")) \/ HasInteger(Fixed("PCOUNT")) )
    => /\ result.ok
       /\ ~result.val.wrapped
       /\ result.val.n % BitsPerBlock = 0
       /\ result.val.n >= Magnitude(FormulaBits)
       /\ result.val.n - Magnitude(FormulaBits) < BitsPerBlock

\* C14: for a header with a SIMPLE record whose NAXIS is an integer <= 0,
\* data_array_size returns 0 whatever the BITPIX and NAXISn records are.
C14_NoAxesNoData ==
  ( /\ op = "data_array_size"
    /\ ~HasNo(Fixed("SIMPLE"))
    /\ HasInteger(Fixed("NAXIS"))
    /\ IntegerOf(Fixed("NAXIS")) <= 0 )
    => result = Ok([wrapped |-> FALSE, n |-> 0])

\* data_array_size of SIMPLE = T, BITPIX = 8, NAXIS = 0 with no NAXIS1
\* record and a NAXIS2 record that holds no integer has returned 0.
C14_Witness ==
  /\ op = "data_array_size"
  /\ records = << KeywordRecord(Fixed("SIMPLE"), Logical(TRUE), None),
                  KeywordRecord(Fixed("BITPIX"), Integer(8), None),
                  KeywordRecord(Fixed("NAXIS"), Integer(0), None),
                  KeywordRecord(Indexed("NAXISn", 2), CharacterString(<<"x">>), None) >>
  /\ result = Ok([wrapped |-> FALSE, n |-> 0])

(***************************************************************************)
(* Properties of the index of a keyword.                                   *)
(***************************************************************************)

\* The field without its trailing whitespace.
FieldText ==
  LET last == {i \in 1..Len(input) : ~is_whitespace(input[i])} IN
  IF last = {} THEN <<>>
  ELSE SubSeq(input, 1, CHOOSE i \in last : \A j \in last : j <= i)

\* s is a decimal number: one or more digits and nothing else.
IsDecimal(s) == s # <<>> /\ \A i \in 1..Len(s) : s[i] \in Range(DigitChars)

RECURSIVE DecimalValue(_)
DecimalValue(s) ==
  IF s = <<>> THEN 0
  ELSE DecimalValue(SubSeq(s, 1, Len(s) - 1)) * 10 + to_digit(s[Len(s)])

\* C18: from_str of a field that starts with a family prefix and is no
\* vocabulary name returns Err(NotANumber) unless what follows the prefix is
\* a decimal number in 0..=65535, and the family's variant with that number
\* (leading zeros allowed) if it is; it never returns Unprocessed.
C18_SuffixMustBeANumber ==
  op = "from_str" =>
    \A e \in Families :
      LET suffix == split_at(FieldText, Len(FamilyPrefix(e)))[2] IN
      (starts_with(FieldText, FamilyPrefix(e)) /\ FieldText \notin Vocabulary)
        => IF IsDecimal(suffix) /\ DecimalValue(suffix) <= U16Max
           THEN result = Ok(Indexed(e.variant, DecimalValue(suffix)))
           ELSE result = Err("NotANumber")

(***************************************************************************)
(* lmle applied to its two arguments (src/src/types/mod.rs, fn lmle).      *)
(*                                                                         *)
(* input holds the arguments <<n, k>>: n a usize as in the size model, k a *)
(* positive number.                                                        *)
(***************************************************************************)

\* Largest distance of an argument n from 0, from a multiple of 2880*8 and
\* from 2^64.
MaxLmleN == 12

LmleDivisors == {1, 2, 3, 7, BlockSize * 8}

\* The arguments n: 0..MaxLmleN, the numbers up to MaxLmleN below and
\* above one block and two blocks of bits, and the MaxLmleN largest
\* values of a usize.
LmleArguments ==
  {as_usize(n) : n \in 0..MaxLmleN}
    \cup {as_usize(b * BlockSize * 8 + d) : b \in 1..2, d \in (0 - MaxLmleN)..MaxLmleN}
    \cup {[wrapped |-> TRUE, n |-> m] : m \in 1..MaxLmleN}

InitLmle ==
  /\ input \in {<<n, k>> : n \in LmleArguments, k \in LmleDivisors}
  /\ op = "none"
  /\ result = NoResult
  /\ pos = 0
  /\ records = <<>>

\* lmle(n, k) on the arguments held in input.
Lmle ==
  /\ op = "none"
  /\ \E build \in Builds :
       /\ op' = "lmle"
       /\ result' = lmle_usize(input[1], input[2], build)
  /\ UNCHANGED <<input, pos, records>>

NextLmle == Lmle

SpecLmle == InitLmle /\ [][NextLmle]_vars

(***************************************************************************)
(* Properties of lmle.                                                     *)
(***************************************************************************)

\* The remainder of the usize u modulo k.
UsizeMod(u, k) ==
  IF u.wrapped THEN (pow2_mod(UsizeBits, k) - u.n) % k ELSE u.n % k

\* b - a for usizes a <= b, and -1 when a > b.  A usize written as
\* 2^64 - m is larger than every usize written as a number of the model,
\* by more than every k of the model.
UsizeGap(a, b) ==
  IF a.wrapped = b.wrapped
  THEN IF a.wrapped
       THEN (IF a.n >= b.n THEN a.n - b.n ELSE 0 - 1)
       ELSE (IF a.n <= b.n THEN b.n - a.n ELSE 0 - 1)
  ELSE IF b.wrapped THEN 2 ^ 30 ELSE 0 - 1

\* C28: for every usize n >= 0 and every k > 0, lmle(n, k) returns a multiple
\* of k that is >= n and < n + k; it returns n when n is a multiple of k,
\* and 0 for n = 0.
C28_LmleIsLeastMultiple ==
  op = "lmle"
    => /\ result.ok
       /\ UsizeMod(result.val, input[2]) = 0
       /\ UsizeGap(input[1], result.val) >= 0
       /\ UsizeGap(input[1], result.val) < input[2]
       /\ UsizeMod(input[1], input[2]) = 0 => result.val = input[1]
       /\ input[1] = as_usize(0) => result.val = as_usize(0)

\* The same for the arguments n whose least multiple is below 2^64.
LmleBelowOverflow ==
  (op = "lmle" /\ (input[1].wrapped => (UsizeMod(input[1], input[2]) = 0
                                          \/ input[1].n > input[2])))
    => /\ result.ok
       /\ UsizeMod(result.val, input[2]) = 0
       /\ UsizeGap(input[1], result.val) >= 0
       /\ UsizeGap(input[1], result.val) < input[2]

(***************************************************************************)
(* fits: primary_header, then many0!(take!(2880)), then Fits::new(ph).     *)
(***************************************************************************)

\* Fits::new(ph) as the parser calls it: the primary header is all it is
\* given.
Fits(ph) == [primary_header |-> ph]

\* Largest number of extension HDUs behind the primary HDU of a buffer.
MaxExtensions == 2

\* The header block of an extension HDU without data: an XTENSION record,
\* the END marker and blank records up to the block boundary.
ExtensionBlock ==
  Record(<<"X","T","E","N","S","I","O","N">>, <<"=", " ", "'", "B", "'", " ", "/", " ", "c">>)
    \o EndMarker \o BlankBytes(BlockSize - 2 * RecordWidth)

RECURSIVE Blocks(_)
Blocks(k) == IF k = 0 THEN <<>> ELSE ExtensionBlock \o Blocks(k - 1)

\* Buffers of a primary header block of one record, up to MaxExtensions
\* extension HDUs, and then nothing or the first record of one more; the
\* empty buffer, the END marker alone and its first half.
FitsBuffers ==
  { r \o EndMarker \o BlankBytes(BlockSize - 2 * RecordWidth) \o Blocks(k) \o tl :
      r \in RecordTemplates,
      k \in 0..MaxExtensions,
      tl \in {<<>>, SubSeq(ExtensionBlock, 1, RecordWidth)} }
    \cup {<<>>, EndMarker, SubSeq(EndMarker, 1, RecordWidth \div 2)}

InitFits ==
  /\ input \in FitsBuffers
  /\ op = "many0_keyword_record"
  /\ result = NoResult
  /\ pos = 0
  /\ records = <<>>

\* primary_header has returned Error or Incomplete: do_parse! returns it.
FitsReturn ==
  /\ op = "done"
  /\ result.kind # "Done"
  /\ op' = "fits_done"
  /\ UNCHANGED <<input, result, pos, records>>

\* TakeBlock that stays on the block it has read.
TakeBlock_keeps_position ==
  /\ \/ op = "done" /\ result.kind = "Done"
     \/ op = "many0_take_block"
  /\ \E i \in {Remaining} :
       \E r \in {IF i = <<>> THEN Error ELSE take(i, BlockSize)} :
         /\ op' = IF r.kind = "Done" THEN "many0_take_block" ELSE "fits_done"
         /\ result' = IF r.kind = "Done" THEN result
                      ELSE IF r.kind = "Incomplete" THEN Incomplete
                      ELSE Done(i, Fits(PrimaryHeader(records)))
  /\ UNCHANGED <<input, records, pos>>

\* One iteration of many0!(take!(2880)) behind primary_header: a whole block
\* is skipped, an Incomplete of take! is passed on, and at the end of the
\* input fits is Done with Fits::new(ph).
TakeBlock ==
  /\ \/ op = "done" /\ result.kind = "Done"
     \/ op = "many0_take_block"
  /\ \E i \in {Remaining} :
       \E r \in {IF i = <<>> THEN Error ELSE take(i, BlockSize)} :
         /\ op' = IF r.kind = "Done" THEN "many0_take_block" ELSE "fits_done"
         /\ result' = IF r.kind = "Done" THEN result
                      ELSE IF r.kind = "Incomplete" THEN Incomplete
                      ELSE Done(i, Fits(PrimaryHeader(records)))
         /\ pos' = IF r.kind = "Done" THEN Len(input) - Len(r.rest) ELSE pos
  /\ UNCHANGED <<input, records>>

NextFits == NextHeader \/ FitsReturn \/ TakeBlock

SpecFits == InitFits /\ [][NextFits]_vars

\* fits is a sequential function that runs until it returns: a step that
\* can be taken is taken.
SpecFitsLive == SpecFits /\ WF_vars(NextFits)

(***************************************************************************)
(* Properties of fits.                                                     *)
(***************************************************************************)

\* The b-th 2880-byte block of the buffer.
BlockAt(b) == SubSeq(input, (b - 1) * BlockSize + 1, b * BlockSize)

\* The buffer is a primary HDU and then extension HDUs, whole blocks each:
\* a header block of a well-formed record that is not an XTENSION record,
\* and header blocks of an XTENSION record behind it.
IsHduStream ==
  /\ Len(input) >= BlockSize
  /\ Len(input) % BlockSize = 0
  /\ WellFormedRecord(RecordAt(1))
  /\ HasComment(RecordAt(1))
  /\ BlockAt(1) = RecordAt(1) \o EndMarker \o BlankBytes(BlockSize - 2 * RecordWidth)
  /\ \A b \in 2..(Len(input) \div BlockSize) : BlockAt(b) = ExtensionBlock

\* The extension HDUs a Fits holds.
ExtensionsOf(f) == IF "extensions" \in DOMAIN f THEN f.extensions ELSE <<>>

\* C17: for a buffer of a primary HDU followed by k extension HDUs, fits is
\* Done with a Fits whose extensions are exactly those k HDUs.
C17_OneHduPerExtension ==
  (op = "fits_done" /\ IsHduStream)
    => /\ result.kind = "Done"
       /\ Len(ExtensionsOf(result.out)) = Len(input) \div BlockSize - 1

\* A step inside one of the repetitions of fits: another keyword record,
\* another blank record, another 2880-byte block.
Iteration ==
  \/ op = "many0_keyword_record" /\ op' = "many0_keyword_record"
  \/ op = "many0_blank_record" /\ op' = "many0_blank_record"
  \/ op' = "many0_take_block"

\* C25: on every buffer fits returns, with Done, Error or Incomplete, and
\* every iteration of its repetitions moves on in the buffer.
C25_FitsTerminates ==
  /\ [][Iteration => pos' > pos]_vars
  /\ <>(op = "fits_done" /\ result.kind \in {"Done", "Error", "Incomplete"})

\* fits has returned Done at the end of a buffer of exactly two blocks.
C25_Witness ==
  /\ op = "fits_done"
  /\ Len(input) = 2 * BlockSize
  /\ pos = Len(input)
  /\ result.kind = "Done"
  /\ result.rest = <<>>

====
